---- MODULE Spec2Model ----
(***************************************************************************)
(* Model of src/Chuvas.py: the column resolver (mapear_colunas), the row   *)
(* validator (validar_dados), the row normalizer (limpar_dados), the DOT   *)
(* chart generator (gerar_dot_moderno) and the Streamlit load flow that    *)
(* stores the current table in st.session_state["df_equipes"].             *)
(*                                                                         *)
(* A text is a sequence of characters, each character a TLA+ string.  A    *)
(* date text is written with one token per digit group ("05", "2024"), so  *)
(* that "05/03/2024" is <<"05","/","03","/","2024">>.  A cell of a table   *)
(* is a record: [k |-> "nan"] (NaN / None / NaT), [k |-> "str", s |-> t]   *)
(* (a Python str) or [k |-> "ts", d |-> day, m |-> month] (a Timestamp of  *)
(* the year TheYear).  A table is [cols |-> column names, rows |-> rows],  *)
(* each row a sequence of cells, one per column.                           *)
(***************************************************************************)
EXTENDS Integers, Sequences, FiniteSets, TLC

VARIABLES
    pc,             \* position of the script run / of the function under test
    colunas_df,     \* mapear_colunas: the header list passed in
    mapeamento,     \* mapear_colunas: the mapping returned
    df_raw,         \* the raw table (baixar_planilha_sharepoint's result)
    df,             \* the table after rename / limpar_dados
    df2,            \* limpar_dados applied to df once more
    valido,         \* validar_dados: first component of the result
    erros,          \* validar_dados: second component of the result
    dot,            \* gerar_dot_moderno: the text returned
    session_state,  \* st.session_state
    checkbox,       \* frontend state of the "Prosseguir mesmo com avisos" box
    cache,          \* st.cache_data entry of baixar_planilha_sharepoint
    marcado,        \* the user has ticked that box at least once
    cfg,            \* gerar_dot_moderno: the config passed in
    pandas,         \* date parsing of the installed pandas: "v1" or "v2"
    dot2,           \* gerar_dot_moderno: the text returned by a second call
    data1,          \* comparar_equipes: the first date passed in
    data2,          \* comparar_equipes: the second date passed in
    pessoas_saida,  \* comparar_equipes: the names that left
    pessoas_entrada \* comparar_equipes: the names that arrived

vars == <<pc, colunas_df, mapeamento, df_raw, df, df2, valido, erros, dot,
          session_state, checkbox, cache, marcado, cfg, pandas, dot2,
          data1, data2, pessoas_saida, pessoas_entrada>>

cmpVars == <<data1, data2, pessoas_saida, pessoas_entrada>>

----------------------------------------------------------------------------
(* Bounds of the model *)

MaxHeaders == 2

MaxRows == 2

MaxRawRows == 2

MaxLabelLen == 2

MaxDotRows == 3

----------------------------------------------------------------------------
(* Sequence helpers *)

Range(s) == {s[i] : i \in DOMAIN s}

SeqsUpTo(S, n) == UNION {[1..k -> S] : k \in 0..n}

Min(S) == CHOOSE x \in S : \A y \in S : x <= y

----------------------------------------------------------------------------
(* Python str methods used by the program *)

UpperLetters == <<"A","B","C","D","E","F","G","H","I","J","K","L","M",
                  "N","O","P","Q","R","S","T","U","V","W","X","Y","Z",
                  "Ç","Ã","Í">>

LowerLetters == <<"a","b","c","d","e","f","g","h","i","j","k","l","m",
                  "n","o","p","q","r","s","t","u","v","w","x","y","z",
                  "ç","ã","í">>

\* str.lower(), character by character
LowerChar(c) ==
    IF \E i \in DOMAIN UpperLetters : UpperLetters[i] = c
    THEN LowerLetters[CHOOSE i \in DOMAIN UpperLetters : UpperLetters[i] = c]
    ELSE c

lower(t) == [i \in DOMAIN t |-> LowerChar(t[i])]

Whitespace == {" ", "\n", "\t"}

RECURSIVE lstrip(_)
lstrip(t) ==
    IF t # <<>> /\ Head(t) \in Whitespace THEN lstrip(Tail(t)) ELSE t

RECURSIVE rstrip(_)
rstrip(t) ==
    IF t # <<>> /\ t[Len(t)] \in Whitespace
    THEN rstrip(SubSeq(t, 1, Len(t) - 1))
    ELSE t

\* str.strip()
strip(t) == rstrip(lstrip(t))

\* unidecode(), character by character: ASCII is kept, accents are folded
UnidecodeChar(c) ==
    CASE c = "ç" -> "c"
      [] c = "Ç" -> "C"
      [] c = "ã" -> "a"
      [] c = "Ã" -> "A"
      [] c = "í" -> "i"
      [] c = "Í" -> "I"
      [] OTHER -> c

unidecode(t) == [i \in DOMAIN t |-> UnidecodeChar(t[i])]

\* str.startswith(prefix)
startswith(t, prefix) ==
    /\ Len(prefix) <= Len(t)
    /\ SubSeq(t, 1, Len(prefix)) = prefix

----------------------------------------------------------------------------
(* The canonical field names and COLUNAS_ESPERADAS *)

K_data == <<"d","a","t","a">>
K_nome == <<"n","o","m","e">>
K_funcao == <<"f","u","n","c","a","o">>
K_encarregado == <<"e","n","c","a","r","r","e","g","a","d","o">>
K_supervisor == <<"s","u","p","e","r","v","i","s","o","r">>

\* the dict in insertion order: a sequence of <<key, synonyms>>
COLUNAS_ESPERADAS == <<
    <<K_data, << <<"d","a","t","a">>, <<"d","a","t","e">>, <<"d","t">>,
                 <<"d","i","a">> >> >>,
    <<K_nome, << <<"n","o","m","e">>, <<"n","a","m","e">>,
                 <<"f","u","n","c","i","o","n","a","r","i","o">>,
                 <<"p","e","s","s","o","a">> >> >>,
    <<K_funcao, << <<"f","u","n","ç","ã","o">>, <<"f","u","n","c","a","o">>,
                   <<"c","a","r","g","o">>,
                   <<"p","o","s","i","t","i","o","n">>,
                   <<"r","o","l","e">> >> >>,
    <<K_encarregado, << <<"e","n","c","a","r","r","e","g","a","d","o">>,
                        <<"r","e","s","p","o","n","s","a","v","e","l">>,
                        <<"l","í","d","e","r">>,
                        <<"l","e","a","d","e","r">>,
                        <<"s","u","p","e","r","v","i","s","o","r","_",
                          "d","i","r","e","t","o">> >> >>,
    <<K_supervisor, << <<"s","u","p","e","r","v","i","s","o","r">>,
                       <<"g","e","s","t","o","r">>,
                       <<"c","o","o","r","d","e","n","a","d","o","r">>,
                       <<"m","a","n","a","g","e","r">>,
                       <<"c","h","e","f","e">> >> >> >>

Chaves == {COLUNAS_ESPERADAS[i][1] : i \in DOMAIN COLUNAS_ESPERADAS}

Sinonimos(chave) ==
    LET i == CHOOSE j \in DOMAIN COLUNAS_ESPERADAS :
                 COLUNAS_ESPERADAS[j][1] = chave
    IN  COLUNAS_ESPERADAS[i][2]

----------------------------------------------------------------------------
(* mapear_colunas *)

\* line 99: the normalized form of one header
NormalizarColuna(c) == unidecode(strip(lower(c)))

\* a resolver that matches a synonym anywhere in the header ("s in col_norm")
CasaSinonimoEmQualquerPosicao(col_norm, sinonimos) ==
    \E j \in DOMAIN sinonimos : \E p \in 0..Len(col_norm) :
        startswith(SubSeq(col_norm, p + 1, Len(col_norm)), sinonimos[j])

\* line 103: any(col_norm.startswith(s) for s in sinonimos)
CasaSinonimo(col_norm, sinonimos) ==
    \E j \in DOMAIN sinonimos : startswith(col_norm, sinonimos[j])

\* a scan without the break of line 105: the last match wins
UltimaColuna(atuais, sinonimos, i) ==
    LET M == {h \in i..Len(atuais) : CasaSinonimo(atuais[h], sinonimos)}
    IN  IF M = {} THEN 0 ELSE CHOOSE h \in M : \A g \in M : g <= h

\* lines 102-105: the scan of the headers from index i on, for one key;
\* the index of the first match, or 0 when the loop ends without a break
RECURSIVE PrimeiraColuna(_, _, _)
PrimeiraColuna(atuais, sinonimos, i) ==
    IF i > Len(atuais) THEN 0
    ELSE IF CasaSinonimo(atuais[i], sinonimos) THEN i
    ELSE PrimeiraColuna(atuais, sinonimos, i + 1)

\* lines 101-105: the outer loop over the keys from index k on; m is the
\* dict built so far, a sequence of [chave, col] in insertion order
RECURSIVE MapearDesde(_, _, _, _)
MapearDesde(cols, atuais, k, m) ==
    IF k > Len(COLUNAS_ESPERADAS) THEN m
    ELSE LET i == PrimeiraColuna(atuais, COLUNAS_ESPERADAS[k][2], 1)
         IN  MapearDesde(cols, atuais, k + 1,
                 IF i = 0 THEN m
                 ELSE Append(m, [chave |-> COLUNAS_ESPERADAS[k][1],
                                 col |-> cols[i]]))

mapear_colunas(cols) ==
    MapearDesde(cols, [i \in DOMAIN cols |-> NormalizarColuna(cols[i])],
                1, <<>>)

\* "c in mapeamento" and "mapeamento[c]"
TemChave(m, chave) == \E i \in DOMAIN m : m[i].chave = chave

ValorDe(m, chave) == m[CHOOSE i \in DOMAIN m : m[i].chave = chave].col

----------------------------------------------------------------------------
(* Header texts the resolver is run on *)

H_Date == <<"D","a","t","e">>
H_EmployeeName == <<"E","m","p","l","o","y","e","e"," ","N","a","m","e">>
H_Role == <<"R","o","l","e">>
H_Responsavel == <<"R","e","s","p","o","n","s","a","v","e","l">>
H_Manager == <<"M","a","n","a","g","e","r">>
H_DT == <<"D","T">>
H_Nome == <<"N","o","m","e">>
H_Cargo == <<"C","a","r","g","o">>
H_Encarregado == <<"E","n","c","a","r","r","e","g","a","d","o">>
H_Supervisor == <<"S","u","p","e","r","v","i","s","o","r">>
H_Funcao_acento == <<"F","u","n","ç","ã","o">>
H_funcao == <<"f","u","n","c","a","o">>
H_Lider_acento == <<"L","í","d","e","r">>
H_lider == <<"l","i","d","e","r">>
H_NOME_espacos == <<" ","N","O","M","E"," ">>
H_supervisor_direto == <<"s","u","p","e","r","v","i","s","o","r","_",
                         "d","i","r","e","t","o">>
H_Nome_Completo == <<"N","o","m","e"," ","C","o","m","p","l","e","t","o">>
H_Obs == <<"O","b","s">>

HeaderPool == {H_Date, H_EmployeeName, H_Role, H_Responsavel, H_Manager,
               H_DT, H_Nome, H_Cargo, H_Encarregado, H_Supervisor,
               H_Funcao_acento, H_funcao, H_Lider_acento, H_lider,
               H_NOME_espacos, H_supervisor_direto, H_Nome_Completo, H_Obs}

HeadersEnglish == <<H_Date, H_EmployeeName, H_Role, H_Responsavel, H_Manager>>

HeadersPortuguese == <<H_DT, H_Nome, H_Cargo, H_Encarregado, H_Supervisor>>

HeaderLists == SeqsUpTo(HeaderPool, MaxHeaders)
                   \cup {HeadersEnglish, HeadersPortuguese}

----------------------------------------------------------------------------
(* Cells and tables *)

NaN == [k |-> "nan"]

Str(t) == [k |-> "str", s |-> t]

Ts(d, m) == [k |-> "ts", d |-> d, m |-> m]

\* Series.isnull(), one cell
isnull(cell) == cell.k = "nan"

Tabela(cols, rows) == [cols |-> cols, rows |-> rows]

\* "col in df.columns"
TemColuna(t, col) == \E j \in DOMAIN t.cols : t.cols[j] = col

IndiceColuna(t, col) == Min({j \in DOMAIN t.cols : t.cols[j] = col})

\* df[col] as the sequence of its cells
Coluna(t, j) == [i \in DOMAIN t.rows |-> t.rows[i][j]]

\* a table with column j replaced by the cells of c
ComColuna(t, j, c) ==
    [t EXCEPT !.rows = [i \in DOMAIN t.rows |->
                            [t.rows[i] EXCEPT ![j] = c[i]]]]

----------------------------------------------------------------------------
(* Dates: Timestamp -> str, pd.to_datetime and strftime("%d/%m/%Y") *)

TheYear == "2024"

MidnightText == "00:00:00"

DayTokens == <<"03", "05", "25">>

DayNumbers == <<3, 5, 25>>

IsDayToken(c) == \E i \in DOMAIN DayTokens : DayTokens[i] = c

Num(c) == DayNumbers[CHOOSE i \in DOMAIN DayTokens : DayTokens[i] = c]

Tok(n) == DayTokens[CHOOSE i \in DOMAIN DayNumbers : DayNumbers[i] = n]

MonthsInYear == 12

NaT == [ok |-> FALSE, d |-> 0, m |-> 0]

Data(d, m) == IF m <= MonthsInYear THEN [ok |-> TRUE, d |-> d, m |-> m] ELSE NaT

\* str(Timestamp): "2024-03-05 00:00:00"
TimestampStr(cell) ==
    <<TheYear, "-", Tok(cell.m), "-", Tok(cell.d), " ", MidnightText>>

\* the text has the shape a/b/2024
IsSlashDate(t) ==
    /\ Len(t) = 5
    /\ IsDayToken(t[1]) /\ t[2] = "/" /\ IsDayToken(t[3]) /\ t[4] = "/"
    /\ t[5] = TheYear

\* the text has the shape 2024-mm-dd 00:00:00
IsIsoDate(t) ==
    /\ Len(t) = 7
    /\ t[1] = TheYear /\ t[2] = "-" /\ IsDayToken(t[3]) /\ t[4] = "-"
    /\ IsDayToken(t[5]) /\ t[6] = " " /\ t[7] = MidnightText

\* dateutil's parse of one text with dayfirst=False: a/b/Y is month a, day b
\* when a can be a month, else day a, month b
ParseDateutil(t) ==
    IF IsIsoDate(t) THEN Data(Num(t[5]), Num(t[3]))
    ELSE IF IsSlashDate(t)
         THEN IF Num(t[1]) <= MonthsInYear THEN Data(Num(t[3]), Num(t[1]))
              ELSE Data(Num(t[1]), Num(t[3]))
    ELSE NaT

\* pandas >= 2: the format guessed from one text
GuessFormat(t) ==
    IF IsIsoDate(t) THEN "%Y-%m-%d %H:%M:%S"
    ELSE IF IsSlashDate(t) /\ ParseDateutil(t).ok
         THEN IF Num(t[1]) <= MonthsInYear THEN "%m/%d/%Y" ELSE "%d/%m/%Y"
    ELSE "none"

\* pandas >= 2: the parse of one text with a fixed format
ParseFormat(t, fmt) ==
    CASE fmt = "%Y-%m-%d %H:%M:%S" ->
             IF IsIsoDate(t) THEN Data(Num(t[5]), Num(t[3])) ELSE NaT
      [] fmt = "%m/%d/%Y" ->
             IF IsSlashDate(t) THEN Data(Num(t[3]), Num(t[1])) ELSE NaT
      [] fmt = "%d/%m/%Y" ->
             IF IsSlashDate(t) THEN Data(Num(t[1]), Num(t[3])) ELSE NaT
      [] OTHER -> ParseDateutil(t)

NatStrings == {<<>>, <<"n","a","n">>, <<"N","a","T">>}

\* the cells of a column that the format is guessed from
IsDateText(cell) == cell.k = "str" /\ cell.s \notin NatStrings

\* pd.to_datetime(column, errors="coerce"), under the parsing of version v
to_datetime(c, v) ==
    LET textos == {i \in DOMAIN c : IsDateText(c[i])}
        fmt == IF v = "v2" /\ textos # {}
               THEN GuessFormat(c[Min(textos)].s)
               ELSE "none"
    IN  [i \in DOMAIN c |->
            CASE c[i].k = "ts" -> Data(c[i].d, c[i].m)
              [] c[i].k = "nan" -> NaT
              [] OTHER -> ParseFormat(c[i].s, fmt)]

\* Series.dt.strftime("%d/%m/%Y"), one value; NaT gives NaN
strftime(x) ==
    IF x.ok THEN Str(<<Tok(x.d), "/", Tok(x.m), "/", TheYear>>) ELSE NaN

----------------------------------------------------------------------------
(* limpar_dados *)

\* select_dtypes(include=['object']): a column holding a str is of dtype
\* object; one of Timestamps and NaT is datetime64, one of NaN is float64
IsObjectColumn(c) == \E i \in DOMAIN c : c[i].k = "str"

\* astype(str), one cell
astype_str(cell) ==
    CASE cell.k = "nan" -> <<"n","a","n">>
      [] cell.k = "ts" -> TimestampStr(cell)
      [] OTHER -> cell.s

\* lines 137-138, from column j on
RECURSIVE StripColumns(_, _)
StripColumns(t, j) ==
    IF j > Len(t.cols) THEN t
    ELSE LET c == Coluna(t, j)
         IN  StripColumns(
                 IF IsObjectColumn(c)
                 THEN ComColuna(t, j,
                          [i \in DOMAIN c |-> Str(strip(astype_str(c[i])))])
                 ELSE t,
                 j + 1)

\* lines 141-142
PadronizarData(t, v) ==
    IF TemColuna(t, K_data)
    THEN LET j == IndiceColuna(t, K_data)
             parsed == to_datetime(Coluna(t, j), v)
         IN  ComColuna(t, j, [i \in DOMAIN parsed |-> strftime(parsed[i])])
    ELSE t

\* DataFrame.duplicated(): row i repeats an earlier row
duplicated(rows, i) == \E h \in 1..(i - 1) : rows[h] = rows[i]

\* line 145: DataFrame.drop_duplicates(), keeping the first occurrence
RECURSIVE DropFrom(_, _)
DropFrom(rows, i) ==
    IF i > Len(rows) THEN <<>>
    ELSE IF duplicated(rows, i) THEN DropFrom(rows, i + 1)
    ELSE <<rows[i]>> \o DropFrom(rows, i + 1)

\* drop_duplicates(keep="last")
drop_duplicates_last(t) ==
    LET marked == [i \in DOMAIN t.rows |->
                      [r |-> t.rows[i],
                       last |-> \A h \in (i + 1)..Len(t.rows) :
                                    t.rows[h] # t.rows[i]]]
        kept == SelectSeq(marked, LAMBDA x : x.last)
    IN  [t EXCEPT !.rows = [k \in DOMAIN kept |-> kept[k].r]]

drop_duplicates(t) == [t EXCEPT !.rows = DropFrom(t.rows, 1)]

limpar_dados(t, v) == drop_duplicates(PadronizarData(StripColumns(t, 1), v))

----------------------------------------------------------------------------
(* validar_dados *)

MsgVazia == [msg |-> "Planilha está vazia", n |-> 0, col |-> <<>>]

MsgNulos(n, col) == [msg |-> "valores vazios na coluna", n |-> n, col |-> col]

MsgDuplicadas(n) == [msg |-> "linhas duplicadas encontradas", n |-> n,
                     col |-> <<>>]

\* an emptiness test that looks at the columns only
emptySemLinhas(t) == Len(t.cols) = 0

\* DataFrame.empty: some axis has length 0
empty(t) == Len(t.rows) = 0 \/ Len(t.cols) = 0

colunas_criticas == <<K_nome, K_funcao, K_encarregado, K_supervisor>>

\* a count of the values that are present (notnull) instead of the nulls
NaoNulos(t, col) ==
    LET c == Coluna(t, IndiceColuna(t, col))
    IN  Cardinality({i \in DOMAIN c : ~isnull(c[i])})

\* line 121: df[col].isnull().sum()
Nulos(t, col) ==
    LET c == Coluna(t, IndiceColuna(t, col))
    IN  Cardinality({i \in DOMAIN c : isnull(c[i])})

\* lines 119-123, from critical column k on
RECURSIVE ErrosNulos(_, _)
ErrosNulos(t, k) ==
    IF k > Len(colunas_criticas) THEN <<>>
    ELSE LET col == colunas_criticas[k]
         IN  (IF TemColuna(t, col) /\ Nulos(t, col) > 0
              THEN <<MsgNulos(Nulos(t, col), col)>>
              ELSE <<>>) \o ErrosNulos(t, k + 1)

\* df.duplicated().sum()
NumDuplicadas(t) ==
    Cardinality({i \in DOMAIN t.rows : duplicated(t.rows, i)})

\* lines 126-127
ErrosDuplicadas(t) ==
    IF NumDuplicadas(t) > 0 THEN <<MsgDuplicadas(NumDuplicadas(t))>> ELSE <<>>

\* the pair (valido, erros) returned
validar_dados(t) ==
    IF empty(t) THEN [valido |-> FALSE, erros |-> <<MsgVazia>>]
    ELSE LET e == ErrosNulos(t, 1) \o ErrosDuplicadas(t)
         IN  [valido |-> Len(e) = 0, erros |-> e]

----------------------------------------------------------------------------
(* gerar_dot_moderno.  The text returned is a sequence of pieces           *)
(* [c |-> characters, w |-> who wrote them]: w = "gen" for the text of     *)
(* the generator's own f-strings, w = "lbl" for the characters that        *)
(* escape_dot returns.  A double quote and a backslash are always a piece  *)
(* of their own, so that a DOT lexer can be run over the pieces.           *)

Aspas == "\""

Barra == "\\"

\* get_color_palette()['supervisor'], ['encarregado'], ['funcionario']
PaletaSupervisor == <<"#FF6B6B", "#4ECDC4", "#45B7D1", "#96CEB4",
                      "#FFEAA7", "#DDA0DD", "#98D8CA">>

CorEncarregadoPadrao == "#FFE66D"

CorFuncionarioPadrao == "#A8E6CF"

\* str.replace(old, new) for a one-character old
RECURSIVE replace(_, _, _)
replace(t, old, new) ==
    IF t = <<>> THEN <<>>
    ELSE (IF Head(t) = old THEN new ELSE <<Head(t)>>)
             \o replace(Tail(t), old, new)

\* line 265
escape_dot(texto) ==
    replace(replace(replace(texto, Aspas, <<Barra, Aspas>>),
                    "\n", <<Barra, "n">>),
            "&", <<"&", "a", "m", "p", ";">>)

Gen(c) == <<[c |-> c, w |-> "gen"]>>

Q == Gen(Aspas)

Lbl(t) == [i \in DOMAIN t |-> [c |-> t[i], w |-> "lbl"]]

\* "{escape_dot(x)}" inside an f-string
Quoted(x) == Q \o Lbl(escape_dot(x)) \o Q

\* config.get(key, default)
ConfigGet(config, key, default) ==
    IF key \in DOMAIN config THEN config[key] ELSE default

\* the distinct values in the order in which they last appear
unique_ultima_ocorrencia(c) ==
    LET idx == SelectSeq([i \in DOMAIN c |-> i],
                         LAMBDA i : \A h \in (i + 1)..Len(c) : c[h] # c[i])
    IN  [k \in DOMAIN idx |-> c[idx[k]]]

\* Series.unique().tolist(): the values in order of first appearance
RECURSIVE unique(_)
unique(c) ==
    IF c = <<>> THEN <<>>
    ELSE LET r == unique(SubSeq(c, 1, Len(c) - 1))
         IN  IF c[Len(c)] \in Range(r) THEN r ELSE Append(r, c[Len(c)])

\* df[df[col] == valor]
Filtrar(t, col, valor) ==
    LET j == IndiceColuna(t, col)
    IN  [t EXCEPT !.rows = SelectSeq(t.rows, LAMBDA r : r[j] = valor)]

Texto(t, i, col) == t.rows[i][IndiceColuna(t, col)].s

\* lines 267-272
DotCabecalho(config) ==
    Gen("digraph Organograma {\n")
    \o Gen("  rankdir=") \o Gen(ConfigGet(config, "layout", "LR")) \o Gen(";\n")
    \o Gen("  compound=true;\n")
    \o Gen("  bgcolor=") \o Q \o Gen("white") \o Q \o Gen(";\n")
    \o Gen("  node [fontname=") \o Q \o Gen("Helvetica") \o Q
    \o Gen(", style=filled, fontsize=10];\n")
    \o Gen("  edge [color=") \o Q \o Gen("#666666") \o Q
    \o Gen(", arrowsize=0.8];\n\n")

\* lines 295-300: the node and the edge of one row
DotFuncionario(nomeTxt, funcTxt, enc, config) ==
    LET nome == Lbl(escape_dot(nomeTxt))
        func == Lbl(escape_dot(funcTxt))
        label == nome \o Gen(Barra) \o Gen("n(") \o func \o Gen(")")
    IN  Gen("    ") \o Q \o nome \o Q \o Gen(" [shape=box, fillcolor=") \o Q
        \o Gen(ConfigGet(config, "cor_funcionario", CorFuncionarioPadrao))
        \o Q \o Gen(", label=") \o Q \o label \o Q \o Gen(", style=") \o Q
        \o Gen("filled,rounded") \o Q \o Gen("];\n")
        \o Gen("    ") \o Quoted(enc) \o Gen(" -> ") \o Q \o nome \o Q
        \o Gen(" [color=") \o Q \o Gen("#666666") \o Q \o Gen("];\n")

\* line 294: the rows of one lead, from row i on
RECURSIVE DotFuncionarios(_, _, _, _)
DotFuncionarios(t, i, enc, config) ==
    IF i > Len(t.rows) THEN <<>>
    ELSE DotFuncionario(Texto(t, i, K_nome), Texto(t, i, K_funcao), enc, config)
         \o DotFuncionarios(t, i + 1, enc, config)

\* lines 290-300: the leads of one supervisor, from lead k on
RECURSIVE DotEncarregados(_, _, _, _, _, _)
DotEncarregados(df_sup, encarregados, k, sup, cor_supervisor, config) ==
    IF k > Len(encarregados) THEN <<>>
    ELSE LET enc == encarregados[k].s
         IN  Gen("    ") \o Quoted(enc) \o Gen(" [shape=box, fillcolor=") \o Q
             \o Gen(ConfigGet(config, "cor_encarregado", CorEncarregadoPadrao))
             \o Q \o Gen(", style=") \o Q \o Gen("filled,rounded") \o Q
             \o Gen(", penwidth=1.5];\n")
             \o Gen("    ") \o Quoted(sup) \o Gen(" -> ") \o Quoted(enc)
             \o Gen(" [style=bold, color=") \o Q \o Gen(cor_supervisor) \o Q
             \o Gen("];\n")
             \o DotFuncionarios(
                    Filtrar(df_sup, K_encarregado, encarregados[k]), 1, enc,
                    config)
             \o DotEncarregados(df_sup, encarregados, k + 1, sup,
                                cor_supervisor, config)

\* the last colour for every index past the end of the palette
CorSupervisorSemCiclo(idx) ==
    PaletaSupervisor[Min({idx, Len(PaletaSupervisor) - 1}) + 1]

\* line 277: the colour of the supervisor at enumerate() index idx
CorSupervisor(idx) == PaletaSupervisor[(idx % Len(PaletaSupervisor)) + 1]

\* lines 276-302: the clusters, from enumerate() index idx on
RECURSIVE DotSupervisores(_, _, _, _)
DotSupervisores(t, supervisors, idx, config) ==
    IF idx >= Len(supervisors) THEN <<>>
    ELSE LET sup == supervisors[idx + 1].s
             cor_supervisor == CorSupervisor(idx)
             df_sup == Filtrar(t, K_supervisor, supervisors[idx + 1])
             encarregados ==
                 unique(Coluna(df_sup, IndiceColuna(df_sup, K_encarregado)))
         IN  Gen("  subgraph cluster_") \o Gen(ToString(idx)) \o Gen(" {\n")
             \o Gen("    label=") \o Quoted(sup) \o Gen(";\n")
             \o Gen("    style=filled;\n")
             \o Gen("    fillcolor=") \o Q \o Gen(cor_supervisor) \o Gen("30")
             \o Q \o Gen(";\n")
             \o Gen("    color=") \o Q \o Gen(cor_supervisor) \o Q \o Gen(";\n")
             \o Gen("    penwidth=2;\n")
             \o Gen("    ") \o Quoted(sup) \o Gen(" [shape=ellipse, fillcolor=")
             \o Q \o Gen(cor_supervisor) \o Q \o Gen(", fontcolor=") \o Q
             \o Gen("white") \o Q \o Gen(", fontsize=12, penwidth=2];\n")
             \o DotEncarregados(df_sup, encarregados, 1, sup, cor_supervisor,
                                config)
             \o Gen("  }\n\n")
             \o DotSupervisores(t, supervisors, idx + 1, config)

gerar_dot_moderno(t, config) ==
    DotCabecalho(config)
    \o DotSupervisores(
           t, unique(Coluna(t, IndiceColuna(t, K_supervisor))), 0, config)
    \o Gen("}\n")

----------------------------------------------------------------------------
(* The DOT lexer's reading of a quoted string: inside the string,          *)
(* backslash-quote and backslash-backslash are consumed as a pair, and the *)
(* next quote closes the string.                                           *)

\* the positions of the quotes the generator wrote, in the order written:
\* the odd ones open a string, the even ones are meant to close it
GenQuotes(out) ==
    SelectSeq([i \in DOMAIN out |-> i],
              LAMBDA i : out[i].c = Aspas /\ out[i].w = "gen")

\* the k-th string the generator wrote: the pieces after its opening quote,
\* up to and including the closing quote
GenString(out, k) ==
    SubSeq(out, GenQuotes(out)[2 * k - 1] + 1, GenQuotes(out)[2 * k])

\* the lexer inside a string, at piece i of s: the position of the quote
\* that closes the string, 0 when s ends before one is read
RECURSIVE LexClose(_, _)
LexClose(s, i) ==
    IF i > Len(s) THEN 0
    ELSE IF s[i].c = Barra /\ i < Len(s) /\ s[i + 1].c \in {Aspas, Barra}
         THEN LexClose(s, i + 2)
    ELSE IF s[i].c = Aspas THEN i
    ELSE LexClose(s, i + 1)

----------------------------------------------------------------------------
(* Values of the variables a specification does not use *)

SemComparacao ==
    /\ data1 = <<>>
    /\ data2 = <<>>
    /\ pessoas_saida = {}
    /\ pessoas_entrada = {}

TabelaVazia == Tabela(<<>>, <<>>)

PandasVersions == {"v1", "v2"}

\* lines 489-493 (the chart shown) and line 512 (the chart exported)
Configs == {[layout |-> "LR", cor_encarregado |-> "#FFE66D",
             cor_funcionario |-> "#A8E6CF"],
            [layout |-> "TB"]}

ConfigPadrao == [layout |-> "LR"]

----------------------------------------------------------------------------
(* Specification SpecResolver: mapear_colunas on a header list *)

InitResolver ==
    /\ pc = "entrada"
    /\ colunas_df \in HeaderLists
    /\ mapeamento = <<>>
    /\ df_raw = <<>>
    /\ df = TabelaVazia
    /\ df2 = TabelaVazia
    /\ valido = FALSE
    /\ erros = <<>>
    /\ dot = <<>>
    /\ session_state = <<>>
    /\ checkbox = "absent"
    /\ cache = <<>>
    /\ marcado = FALSE
    /\ dot2 = <<>>
    /\ SemComparacao
    /\ cfg = ConfigPadrao
    /\ pandas = "v1"

Mapear ==
    /\ pc = "entrada"
    /\ mapeamento' = mapear_colunas(colunas_df)
    /\ pc' = "mapeado"
    /\ UNCHANGED <<dot2, cmpVars>>
    /\ UNCHANGED <<colunas_df, df_raw, df, df2, valido, erros, dot,
                   session_state, checkbox, cache, marcado, cfg, pandas>>

NextResolver == Mapear

SpecResolver == InitResolver /\ [][NextResolver]_vars

\* the headers of the list that match a synonym of the key at position k
Casam(cols, k) ==
    {i \in DOMAIN cols :
        \E j \in DOMAIN COLUNAS_ESPERADAS[k][2] :
            startswith(NormalizarColuna(cols[i]), COLUNAS_ESPERADAS[k][2][j])}

\* C2 (as claimed): mapear_colunas(["Date","Employee Name","Role",
\* "Responsavel","Manager"]) contains all five canonical fields, data ->
\* "Date", nome -> "Employee Name", funcao -> "Role", encarregado ->
\* "Responsavel", supervisor -> "Manager".
C2_AllFiveMapped ==
    (pc = "mapeado" /\ colunas_df = HeadersEnglish) =>
        mapeamento = <<[chave |-> K_data, col |-> H_Date],
                       [chave |-> K_nome, col |-> H_EmployeeName],
                       [chave |-> K_funcao, col |-> H_Role],
                       [chave |-> K_encarregado, col |-> H_Responsavel],
                       [chave |-> K_supervisor, col |-> H_Manager]>>

\* C2 (amended): on that header list the mapping holds exactly the four
\* fields data -> "Date", funcao -> "Role", encarregado -> "Responsavel" and
\* supervisor -> "Manager"; nome is absent, because "employee name" starts
\* with none of the synonyms nome, name, funcionario, pessoa.
C2_FourMappedNomeAbsent ==
    (pc = "mapeado" /\ colunas_df = HeadersEnglish) =>
        /\ mapeamento = <<[chave |-> K_data, col |-> H_Date],
                          [chave |-> K_funcao, col |-> H_Role],
                          [chave |-> K_encarregado, col |-> H_Responsavel],
                          [chave |-> K_supervisor, col |-> H_Manager]>>
        /\ ~TemChave(mapeamento, K_nome)

C2_Witness ==
    /\ pc = "mapeado"
    /\ colunas_df = HeadersEnglish
    /\ Len(mapeamento) = 4

\* C6 (as claimed): a header that differs from a registered synonym only in
\* letter case, surrounding whitespace or diacritics resolves to that
\* synonym's field; so the lone header "Líder", and the lone header "lider",
\* resolve to encarregado.
C6_EverySynonymFoldsToItsField ==
    (pc = "mapeado" /\ Len(colunas_df) = 1) =>
        \A k \in DOMAIN COLUNAS_ESPERADAS :
            (\E j \in DOMAIN COLUNAS_ESPERADAS[k][2] :
                 NormalizarColuna(colunas_df[1])
                     = NormalizarColuna(COLUNAS_ESPERADAS[k][2][j]))
            => /\ TemChave(mapeamento, COLUNAS_ESPERADAS[k][1])
               /\ ValorDe(mapeamento, COLUNAS_ESPERADAS[k][1]) = colunas_df[1]

\* C7: every canonical field is mapped to the leftmost header whose
\* normalized form starts with one of the field's synonyms, occurs at most
\* once in the mapping, and is absent exactly when no header matches.
C7_LeftmostOrAbsent ==
    pc = "mapeado" =>
        /\ \A k \in DOMAIN COLUNAS_ESPERADAS :
               LET chave == COLUNAS_ESPERADAS[k][1]
                   M == Casam(colunas_df, k)
               IN  /\ TemChave(mapeamento, chave) <=> M # {}
                   /\ Cardinality({i \in DOMAIN mapeamento :
                                      mapeamento[i].chave = chave}) <= 1
                   /\ M # {} =>
                          ValorDe(mapeamento, chave) = colunas_df[Min(M)]
        /\ \A i \in DOMAIN mapeamento : mapeamento[i].chave \in Chaves

\* two different headers match one field and the first is the one mapped,
\* while another field has no header
C7_Witness ==
    /\ pc = "mapeado"
    /\ \E k \in DOMAIN COLUNAS_ESPERADAS :
           /\ Casam(colunas_df, k) = {1, 2}
           /\ colunas_df[1] # colunas_df[2]
           /\ ValorDe(mapeamento, COLUNAS_ESPERADAS[k][1]) = colunas_df[1]
    /\ \E chave \in Chaves : ~TemChave(mapeamento, chave)

----------------------------------------------------------------------------
(* Specification SpecTable: limpar_dados and validar_dados on a table *)

T_a == <<"a">>
T_a_espacos == <<" ", "a", " ">>
T_vazio == <<>>

T_05_03 == <<"05", "/", "03", "/", "2024">>
T_25_03_espacos == <<" ", "25", "/", "03", "/", "2024", " ">>
T_lixo == <<"x">>

TextCells == {NaN, Str(T_a), Str(T_a_espacos), Str(T_vazio)}

DateCells == {NaN, Ts(5, 3), Str(T_05_03), Str(T_25_03_espacos), Str(T_lixo)}

NameCells == {NaN, Str(T_a), Str(T_a_espacos)}

\* two rows are the same but for the padding of their text cells
SameUpToPadding(r1, r2) ==
    \A j \in DOMAIN r1 :
        \/ r1[j] = r2[j]
        \/ /\ r1[j].k = "str" /\ r2[j].k = "str"
           /\ strip(r1[j].s) = strip(r2[j].s)

\* tables of three rows whose last row repeats the first but for padding
RepeatTables ==
    {Tabela(<<K_nome, K_funcao>>, <<r1, r2, r3>>) :
         <<r1, r2, r3>> \in
             {x \in (TextCells \X TextCells) \X (TextCells \X TextCells)
                       \X (TextCells \X TextCells) :
                  SameUpToPadding(x[1], x[3])}}

TestTables ==
    {Tabela(<<K_data, K_nome>>, rows) :
         rows \in SeqsUpTo(DateCells \X NameCells, MaxRows)}
    \cup {Tabela(<<K_nome, K_funcao>>, rows) :
              rows \in SeqsUpTo(TextCells \X TextCells, MaxRows)}
    \cup RepeatTables

InitTable ==
    /\ pc = "entrada"
    /\ df \in TestTables
    /\ pandas \in (IF TemColuna(df, K_data) THEN PandasVersions ELSE {"v1"})
    /\ colunas_df = <<>>
    /\ mapeamento = <<>>
    /\ df_raw = <<>>
    /\ df2 = TabelaVazia
    /\ valido = FALSE
    /\ erros = <<>>
    /\ dot = <<>>
    /\ session_state = <<>>
    /\ checkbox = "absent"
    /\ cache = <<>>
    /\ marcado = FALSE
    /\ dot2 = <<>>
    /\ SemComparacao
    /\ cfg = ConfigPadrao

\* df2 = limpar_dados(df)
Limpar ==
    /\ pc = "entrada"
    /\ df2' = limpar_dados(df, pandas)
    /\ pc' = "limpo"
    /\ UNCHANGED <<dot2, cmpVars>>
    /\ UNCHANGED <<colunas_df, mapeamento, df_raw, df, valido, erros, dot,
                   session_state, checkbox, cache, marcado, cfg, pandas>>

\* a second call on the result of the first: df = the first result,
\* df2 = limpar_dados(limpar_dados(the input))
LimparDeNovo ==
    /\ pc = "limpo"
    /\ df' = df2
    /\ df2' = limpar_dados(df2, pandas)
    /\ pc' = "limpo2"
    /\ UNCHANGED <<dot2, cmpVars>>
    /\ UNCHANGED <<colunas_df, mapeamento, df_raw, valido, erros, dot,
                   session_state, checkbox, cache, marcado, cfg, pandas>>

\* valido, erros = validar_dados(df)
Validar ==
    /\ pc = "entrada"
    /\ valido' = validar_dados(df).valido
    /\ erros' = validar_dados(df).erros
    /\ pc' = "validado"
    /\ UNCHANGED <<dot2, cmpVars>>
    /\ UNCHANGED <<colunas_df, mapeamento, df_raw, df, df2, dot,
                   session_state, checkbox, cache, marcado, cfg, pandas>>

NextTable == Limpar \/ LimparDeNovo \/ Validar

SpecTable == InitTable /\ [][NextTable]_vars

\* C3 (as claimed): limpar_dados(limpar_dados(T)) equals limpar_dados(T), row
\* for row and cell for cell, for every table T.
C3_NormalizerIdempotent ==
    pc = "limpo2" => df2 = df

\* the warnings of validar_dados that report null values
AvisosNulos == SelectSeq(erros, LAMBDA e : e.msg = MsgNulos(0, <<>>).msg)

PosicaoCritica(col) ==
    CHOOSE k \in DOMAIN colunas_criticas : colunas_criticas[k] = col

\* the cells of column col of df that satisfy Test
Contar(col, Test(_)) ==
    Cardinality({i \in DOMAIN df.rows :
                    Test(df.rows[i][IndiceColuna(df, col)])})

\* the null warnings are, in the order of colunas_criticas, one warning per
\* critical column that is present and has a value counted by Test, carrying
\* the number of such values, and nothing else
AvisosNulosContam(Test(_)) ==
    /\ \A i \in DOMAIN AvisosNulos :
           /\ AvisosNulos[i].col \in Range(colunas_criticas)
           /\ TemColuna(df, AvisosNulos[i].col)
    /\ \A i, j \in DOMAIN AvisosNulos :
           i < j => PosicaoCritica(AvisosNulos[i].col)
                        < PosicaoCritica(AvisosNulos[j].col)
    /\ \A k \in DOMAIN colunas_criticas :
           LET col == colunas_criticas[k]
               n == IF TemColuna(df, col) THEN Contar(col, Test) ELSE 0
               ws == {i \in DOMAIN AvisosNulos : AvisosNulos[i].col = col}
           IN  IF n > 0
               THEN /\ Cardinality(ws) = 1
                    /\ \A i \in ws : AvisosNulos[i].n = n
               ELSE ws = {}

IsNullOrEmpty(cell) == cell.k = "nan" \/ (cell.k = "str" /\ cell.s = <<>>)

IsNull(cell) == cell.k = "nan"

\* C8 (as claimed): on a non-empty table validar_dados emits, in the order
\* nome, funcao, encarregado, supervisor, exactly one warning per present
\* column that has a null or empty value, carrying the number of such values
\* and the column name, and none for a column without such values.
C8_WarnsNullOrEmpty ==
    (pc = "validado" /\ ~empty(df)) => AvisosNulosContam(IsNullOrEmpty)

\* C8 (amended): the same with "null" (NaN / None / NaT) in place of "null or
\* empty": an empty string is a value and is not counted.
C8_WarnsNull ==
    (pc = "validado" /\ ~empty(df)) => AvisosNulosContam(IsNull)

\* two columns are reported, one of them with two nulls, beside a column
\* value that is an empty string
C8_Witness ==
    /\ pc = "validado"
    /\ Len(AvisosNulos) = 2
    /\ \E i \in DOMAIN AvisosNulos : AvisosNulos[i].n = 2
    /\ \E i \in DOMAIN df.rows : \E j \in DOMAIN df.cols :
           df.rows[i][j] = Str(<<>>)

\* C9: on a table with zero rows validar_dados returns is_valid = False and
\* exactly the one 'planilha vazia' message, whatever the columns.
C9_EmptyTableShortCircuit ==
    (pc = "validado" /\ Len(df.rows) = 0) =>
        /\ valido = FALSE
        /\ erros = <<MsgVazia>>

C9_Witness ==
    /\ pc = "validado"
    /\ Len(df.rows) = 0
    /\ TemColuna(df, K_nome)
    /\ erros = <<MsgVazia>>

\* the rows of df after trimming and date formatting, before the duplicates
\* are dropped
Normalizadas == PadronizarData(StripColumns(df, 1), pandas).rows

\* the positions of Normalizadas that hold the first occurrence of a row
Primeiras ==
    {i \in DOMAIN Normalizadas :
        \A h \in 1..(i - 1) : Normalizadas[h] # Normalizadas[i]}

\* C10: in the result of limpar_dados no two rows are identical in every
\* column, the rows are the first occurrences of the distinct trimmed rows in
\* their original order, and two input rows that differ only in the leading
\* or trailing whitespace of text cells yield one output row.
C10_DropsExactDuplicatesAfterTrim ==
    pc = "limpo" =>
        /\ \A i, j \in DOMAIN df2.rows : i # j => df2.rows[i] # df2.rows[j]
        /\ Len(df2.rows) = Cardinality(Primeiras)
        /\ \A k \in DOMAIN df2.rows :
               \E i \in Primeiras :
                   /\ Cardinality({h \in Primeiras : h <= i}) = k
                   /\ df2.rows[k] = Normalizadas[i]
        /\ \A i, j \in DOMAIN df.rows :
               (i # j /\ SameUpToPadding(df.rows[i], df.rows[j])) =>
                   Cardinality({k \in DOMAIN df2.rows :
                                   \/ df2.rows[k] = Normalizadas[i]
                                   \/ df2.rows[k] = Normalizadas[j]}) = 1

\* three rows, the third the first with other padding, collapse to two
C10_Witness ==
    /\ pc = "limpo"
    /\ Len(df.rows) = 3
    /\ df.rows[1] # df.rows[3]
    /\ df.rows[1] # df.rows[2]
    /\ SameUpToPadding(df.rows[1], df.rows[3])
    /\ ~SameUpToPadding(df.rows[1], df.rows[2])
    /\ Len(df2.rows) = 2
    /\ df2.rows[1] = Normalizadas[1]

----------------------------------------------------------------------------
(* Specification SpecDot: gerar_dot_moderno on a table of texts *)

ColunasDot == <<K_nome, K_funcao, K_encarregado, K_supervisor>>

LabelChars == {"a", Aspas, Barra, "&", "\n"}

LabelPool == SeqsUpTo(LabelChars, MaxLabelLen)

T_Ana == <<"A","n","a">>
T_Bia == <<"B","i","a">>
T_Eletricista == <<"E","l","e","t","r","i","c","i","s","t","a">>
T_Enc1 == <<"E","n","c","1">>
T_Enc2 == <<"E","n","c","2">>
T_Sup1 == <<"S","u","p","1">>
T_Sup2 == <<"S","u","p","2">>

\* one row, each of whose four texts is a plain name or the text x
LabelTables ==
    {Tabela(ColunasDot, <<<<Str(n), Str(f), Str(e), Str(s)>>>>) :
         <<n, f, e, s>> \in
             UNION {{T_Ana, x} \X {T_Eletricista, x} \X {T_Enc1, x}
                        \X {T_Sup1, x} : x \in LabelPool}}

\* up to MaxDotRows rows of plain names under two supervisors and two leads
TeamTables ==
    {Tabela(ColunasDot, rows) :
         rows \in SeqsUpTo({Str(T_Ana), Str(T_Bia)} \X {Str(T_Eletricista)}
                               \X {Str(T_Enc1), Str(T_Enc2)}
                               \X {Str(T_Sup1), Str(T_Sup2)}, MaxDotRows)}

DotTables == LabelTables \cup TeamTables

InitDot ==
    /\ pc = "entrada"
    /\ df \in DotTables
    /\ cfg \in Configs
    /\ colunas_df = <<>>
    /\ mapeamento = <<>>
    /\ df_raw = <<>>
    /\ df2 = TabelaVazia
    /\ valido = FALSE
    /\ erros = <<>>
    /\ dot = <<>>
    /\ session_state = <<>>
    /\ checkbox = "absent"
    /\ cache = <<>>
    /\ marcado = FALSE
    /\ dot2 = <<>>
    /\ SemComparacao
    /\ pandas = "v1"

\* dot = gerar_dot_moderno(df, config)
Gerar ==
    /\ pc = "entrada"
    /\ dot' = gerar_dot_moderno(df, cfg)
    /\ pc' = "gerado"
    /\ UNCHANGED <<dot2, cmpVars>>
    /\ UNCHANGED <<colunas_df, mapeamento, df_raw, df, df2, valido, erros,
                   session_state, checkbox, cache, marcado, cfg, pandas>>

NextDot == Gerar

SpecDot == InitDot /\ [][NextDot]_vars

\* C5 (as claimed): whatever the name, role, lead and supervisor texts
\* (double quotes, newlines, ampersands, backslashes), every double-quoted
\* string in the output ends exactly at the closing quote the generator
\* wrote: a DOT lexer that enters the string at its opening quote leaves it
\* at that closing quote, neither earlier nor later.
C5_QuotedStringsWellFormed ==
    pc = "gerado" =>
        \A k \in 1..(Len(GenQuotes(dot)) \div 2) :
            LexClose(GenString(dot, k), 1) = Len(GenString(dot, k))

----------------------------------------------------------------------------
(* Specification SpecChart: gerar_dot_moderno called twice on a table of   *)
(* plain names                                                             *)

MaxSupervisors == 9

T_S(i) == <<"S", ToString(i)>>

\* n supervisors S1..Sn, one row each, in that order; with repetir the
\* first supervisor has a second row, right after its first
LinhasPaleta(n, repetir) ==
    LET linha(i) == <<Str(T_Ana), Str(T_Eletricista), Str(T_Enc1), Str(T_S(i))>>
        um == [i \in 1..n |-> linha(i)]
    IN  IF repetir THEN <<linha(1)>> \o um ELSE um

PaletteTables ==
    {Tabela(ColunasDot, LinhasPaleta(n, repetir)) :
         n \in 1..MaxSupervisors, repetir \in BOOLEAN}

MaxTeamRows == 3

LinhaEquipe(n, e, sp) == <<Str(n), Str(T_Eletricista), Str(e), Str(sp)>>

\* up to MaxTeamRows rows of two names under two supervisors and two leads
ChartTeamTables ==
    {Tabela(ColunasDot, rows) :
         rows \in SeqsUpTo({LinhaEquipe(T_Ana, T_Enc1, T_Sup1),
                            LinhaEquipe(T_Bia, T_Enc1, T_Sup1),
                            LinhaEquipe(T_Ana, T_Enc2, T_Sup1),
                            LinhaEquipe(T_Ana, T_Enc1, T_Sup2),
                            LinhaEquipe(T_Bia, T_Enc2, T_Sup2),
                            LinhaEquipe(T_Ana, T_Enc2, T_Sup2)}, MaxTeamRows)}

ChartTables == ChartTeamTables \cup PaletteTables

InitChart ==
    /\ pc = "entrada"
    /\ df \in ChartTables
    /\ cfg \in Configs
    /\ colunas_df = <<>>
    /\ mapeamento = <<>>
    /\ df_raw = <<>>
    /\ df2 = TabelaVazia
    /\ valido = FALSE
    /\ erros = <<>>
    /\ dot = <<>>
    /\ dot2 = <<>>
    /\ session_state = <<>>
    /\ checkbox = "absent"
    /\ cache = <<>>
    /\ marcado = FALSE
    /\ SemComparacao
    /\ pandas = "v1"

\* a second call with the same table and config
GerarDeNovo ==
    /\ pc = "gerado"
    /\ dot2' = gerar_dot_moderno(df, cfg)
    /\ pc' = "gerado2"
    /\ UNCHANGED cmpVars
    /\ UNCHANGED <<colunas_df, mapeamento, df_raw, df, df2, valido, erros,
                   dot, session_state, checkbox, cache, marcado, cfg, pandas>>

NextChart == Gerar \/ GerarDeNovo

SpecChart == InitChart /\ [][NextChart]_vars

\* Reading the text returned as a sequence of statements.  q is the piece
\* of a quote the generator wrote.
Max(S) == CHOOSE x \in S : \A y \in S : x >= y

EhAspasGen(out, j) == out[j].c = Aspas /\ out[j].w = "gen"

\* the characters between the opening quote q and the next quote written
TextoApos(out, q) ==
    LET f == Min({j \in DOMAIN out : j > q /\ EhAspasGen(out, j)})
    IN  [j \in 1..(f - q - 1) |-> out[q + j].c]

\* the characters between the quote written before the closing quote q and q
TextoAntes(out, q) ==
    LET a == Max({j \in DOMAIN out : j < q /\ EhAspasGen(out, j)})
    IN  [j \in 1..(q - a - 1) |-> out[a + j].c]

MarcaCluster == "    label="
MarcaCaixa == " [shape=box, fillcolor="
MarcaSeta == " -> "

\* the statement whose marker is piece i: a cluster label, a lead node, a
\* person node, a supervisor->lead edge or a lead->person edge
Declaracao(out, i) ==
    CASE out[i].c = MarcaCluster ->
             [tipo |-> "cluster", a |-> TextoApos(out, i + 1), b |-> <<>>]
      [] out[i].c = MarcaCaixa ->
             [tipo |-> IF out[i + 4].c = ", label=" THEN "pessoa"
                       ELSE "encarregado",
              a |-> TextoAntes(out, i - 1), b |-> <<>>]
      [] out[i].c = MarcaSeta ->
             LET f == Min({j \in DOMAIN out : j > i + 1 /\ EhAspasGen(out, j)})
             IN  [tipo |-> IF out[f + 1].c = " [color=" THEN "aresta_pessoa"
                           ELSE "aresta_encarregado",
                  a |-> TextoAntes(out, i - 1), b |-> TextoApos(out, i + 1)]

Declaracoes(out) ==
    LET marcas == SelectSeq([i \in DOMAIN out |-> i],
                            LAMBDA i : /\ out[i].w = "gen"
                                       /\ out[i].c \in {MarcaCluster,
                                                        MarcaCaixa, MarcaSeta})
    IN  [k \in DOMAIN marcas |-> Declaracao(out, marcas[k])]

PosTipo(D, tipo) ==
    SelectSeq([i \in DOMAIN D |-> i], LAMBDA i : D[i].tipo = tipo)

\* the statements from the k-th position of starts up to the next one
Trecho(D, starts, k) ==
    SubSeq(D, starts[k],
           IF k < Len(starts) THEN starts[k + 1] - 1 ELSE Len(D))

\* the values of c in the order in which they first appear
PrimeirasOcorrencias(c) ==
    LET idx == SelectSeq([i \in DOMAIN c |-> i],
                         LAMBDA i : \A h \in 1..(i - 1) : c[h] # c[i])
    IN  [k \in DOMAIN idx |-> c[idx[k]]]

\* the statements of one lead: its node, the edge from the supervisor, and
\* per row of linhas, in row order, one person node and one lead->person edge
TrechoDoEncarregado(E, sup, enc, linhas) ==
    /\ Len(E) = 2 + 2 * Len(linhas)
    /\ E[1] = [tipo |-> "encarregado", a |-> escape_dot(enc.s), b |-> <<>>]
    /\ E[2] = [tipo |-> "aresta_encarregado", a |-> escape_dot(sup.s),
               b |-> escape_dot(enc.s)]
    /\ \A r \in DOMAIN linhas :
           LET nome == escape_dot(linhas[r][IndiceColuna(df, K_nome)].s)
           IN  /\ E[2 * r + 1] = [tipo |-> "pessoa", a |-> nome, b |-> <<>>]
               /\ E[2 * r + 2] = [tipo |-> "aresta_pessoa",
                                  a |-> escape_dot(enc.s), b |-> nome]

\* the statements of one cluster: its label, then the leads in the order in
\* which they first appear among the rows of the supervisor
TrechoDoSupervisor(S, sup) ==
    LET linhas_s == SelectSeq(df.rows,
                       LAMBDA r : r[IndiceColuna(df, K_supervisor)] = sup)
        encs == PrimeirasOcorrencias(
                    [i \in DOMAIN linhas_s |->
                        linhas_s[i][IndiceColuna(df, K_encarregado)]])
        en == PosTipo(S, "encarregado")
    IN  /\ S[1] = [tipo |-> "cluster", a |-> escape_dot(sup.s), b |-> <<>>]
        /\ Len(en) = Len(encs)
        /\ en[1] = 2
        /\ \A l \in DOMAIN en :
               \A E \in {Trecho(S, en, l)} :
                   TrechoDoEncarregado(
                       E, sup, encs[l],
                       SelectSeq(linhas_s,
                           LAMBDA r : r[IndiceColuna(df, K_encarregado)]
                                          = encs[l]))

\* C12: two calls of gerar_dot_moderno with the same table and config return
\* the same text; the text has exactly one cluster per distinct supervisor,
\* in the order in which the supervisors first appear in the rows; in a
\* cluster the lead nodes come in the order in which the leads first appear
\* among the rows of that supervisor; and under each (supervisor, lead) pair
\* there is one person node and one lead->person edge per row, in row order.
C12_DeterministicFirstAppearanceOrder ==
    pc = "gerado2" =>
        /\ dot2 = dot
        /\ \A D \in {Declaracoes(dot)} : \A cl \in {PosTipo(D, "cluster")} :
               LET sups == PrimeirasOcorrencias(
                               Coluna(df, IndiceColuna(df, K_supervisor)))
               IN  /\ Len(cl) = Len(sups)
                   /\ Len(cl) > 0 => cl[1] = 1
                   /\ \A k \in DOMAIN cl : \A S \in {Trecho(D, cl, k)} :
                          TrechoDoSupervisor(S, sups[k])

\* both calls were made on a table of three rows whose supervisors are
\* Sup2, Sup1, Sup2 and whose leads under Sup2 are Enc2 then Enc1
C12_Witness ==
    /\ pc = "gerado2"
    /\ Len(df.rows) = 3
    /\ Coluna(df, IndiceColuna(df, K_supervisor))
           = <<Str(T_Sup2), Str(T_Sup1), Str(T_Sup2)>>
    /\ Coluna(df, IndiceColuna(df, K_encarregado))
           = <<Str(T_Enc2), Str(T_Enc1), Str(T_Enc1)>>
    /\ Coluna(df, IndiceColuna(df, K_nome))
           = <<Str(T_Ana), Str(T_Bia), Str(T_Ana)>>
    /\ dot2 = dot

\* Reading the colours of the text returned.
MarcaSubgraph == "  subgraph cluster_"

InicioClusters(out) ==
    SelectSeq([i \in DOMAIN out |-> i],
              LAMBDA i : out[i].w = "gen" /\ out[i].c = MarcaSubgraph)

\* the pieces of the k-th cluster, from its subgraph line to the next one
PedacosDoCluster(out, k) ==
    LET ini == InicioClusters(out)
    IN  SubSeq(out, ini[k],
               IF k < Len(ini) THEN ini[k + 1] - 1 ELSE Len(out))

\* the colours written in seg after the attribute text marca and a quote
CoresApos(seg, marca) ==
    LET pos == SelectSeq([i \in DOMAIN seg |-> i],
                         LAMBDA i : seg[i].w = "gen" /\ seg[i].c = marca)
    IN  [n \in DOMAIN pos |-> seg[pos[n] + 2].c]

\* the colour of the k-th cluster: the fill of its supervisor node
CorDoCluster(out, k) ==
    CoresApos(PedacosDoCluster(out, k), " [shape=ellipse, fillcolor=")[1]

PaletteSize == 7

\* C13: the supervisor at first-appearance index i (the cluster written
\* i-th, counting from 0) has its node fill, its cluster border and its
\* supervisor->lead edges in palette[i mod 7]; so the supervisors at index 0
\* and index 7 have the same colour, and two supervisors whose indices
\* differ by less than 7 have different colours.
C13_PaletteCycling ==
    pc \in {"gerado", "gerado2"} =>
        \A sups \in {PrimeirasOcorrencias(
                        Coluna(df, IndiceColuna(df, K_supervisor)))} :
            /\ Len(InicioClusters(dot)) = Len(sups)
            /\ \A k \in DOMAIN sups : \A seg \in {PedacosDoCluster(dot, k)} :
                   LET cor == PaletaSupervisor[((k - 1) % PaletteSize) + 1]
                   IN  /\ seg[4].c = MarcaCluster
                       /\ TextoApos(seg, 5) = escape_dot(sups[k].s)
                       /\ CoresApos(seg, " [shape=ellipse, fillcolor=")
                              = <<cor>>
                       /\ CoresApos(seg, "    color=") = <<cor>>
                       /\ Len(CoresApos(seg, " [style=bold, color=")) >= 1
                       /\ \A n \in DOMAIN CoresApos(seg, " [style=bold, color=") :
                              CoresApos(seg, " [style=bold, color=")[n] = cor
            /\ \A i, j \in DOMAIN sups :
                   /\ (j = i + PaletteSize)
                          => CorDoCluster(dot, i) = CorDoCluster(dot, j)
                   /\ (i < j /\ j - i < PaletteSize)
                          => CorDoCluster(dot, i) # CorDoCluster(dot, j)

\* the chart of nine distinct supervisors was generated, the first of them
\* on two rows: the clusters written first and eighth have the same colour
C13_Witness ==
    /\ pc = "gerado"
    /\ Len(df.rows) = 10
    /\ Len(InicioClusters(dot)) = 9
    /\ CorDoCluster(dot, 1) = CorDoCluster(dot, 8)
    /\ CorDoCluster(dot, 2) = CorDoCluster(dot, 9)
    /\ CorDoCluster(dot, 1) # CorDoCluster(dot, 7)

----------------------------------------------------------------------------
(* Specification Spec: the load flow of the page "Visualizar Organograma". *)
(* Every action is one run of the script, started by one interaction.      *)
(* The result of baixar_planilha_sharepoint is <<>> for None and <<t>> for *)
(* the table t; cache is <<>> without an entry and <<result>> with one.    *)

\* line 408
obrigatorias == <<K_data, K_nome, K_funcao, K_encarregado, K_supervisor>>

\* line 410
Completo(m) == \A i \in DOMAIN obrigatorias : TemChave(m, obrigatorias[i])

\* line 416: df_raw.rename(columns={v: k for k, v in mapeamento.items()});
\* in the inverted dict the last key written for a header is the one kept
Renomear(t, m) ==
    [t EXCEPT !.cols =
        [j \in DOMAIN t.cols |->
            LET M == {i \in DOMAIN m : m[i].col = t.cols[j]}
            IN  IF M = {} THEN t.cols[j]
                ELSE m[CHOOSE i \in M : \A h \in M : h <= i].chave]]

\* a checkbox created with value=True
CheckboxMarcadoPorPadrao(w) == w # "unchecked"

\* line 427: what st.checkbox returns in a run that starts with the widget
\* in state w: a widget that was not on the page in the last run is new and
\* has its default value, False
CheckboxValor(w) == w = "checked"

\* lines 402-431: the body of "if st.button(...)" for the download result
\* raw, the widget state w and the pandas version v
BlocoCarregar(raw, w, v) ==
    IF raw = <<>>
    THEN [pc |-> "sem_dados", mapeamento |-> <<>>, df |-> TabelaVazia,
          valido |-> FALSE, erros |-> <<>>, guarda |-> FALSE,
          checkbox |-> "absent"]
    ELSE LET m == mapear_colunas(raw[1].cols)
         IN  IF ~Completo(m)
             THEN [pc |-> "faltando", mapeamento |-> m, df |-> TabelaVazia,
                   valido |-> FALSE, erros |-> <<>>, guarda |-> FALSE,
                   checkbox |-> "absent"]
             ELSE LET d == limpar_dados(Renomear(raw[1], m), v)
                      r == validar_dados(d)
                      prosseguir == r.valido \/ CheckboxValor(w)
                  IN  [pc |-> IF prosseguir THEN "carregado" ELSE "avisos",
                       mapeamento |-> m, df |-> d,
                       valido |-> r.valido, erros |-> r.erros,
                       guarda |-> prosseguir,
                       checkbox |-> IF prosseguir THEN "absent"
                                    ELSE IF w = "absent" THEN "unchecked"
                                    ELSE w]

RowAna == <<Ts(5, 3), Str(T_Ana), Str(T_Eletricista), Str(T_Enc1), Str(T_Sup1)>>
RowBia == <<Ts(5, 3), Str(T_Bia), NaN, Str(T_Enc1), Str(T_Sup1)>>
RowCaio == <<Ts(25, 3), Str(<<"C","a","i","o">>), Str(T_Eletricista),
             Str(T_Enc2), Str(T_Sup1)>>

HeadersAmbiguous == <<H_DT, H_Nome, H_Cargo, H_supervisor_direto>>

\* what the download can return: None, a table with the Portuguese headers
\* (up to MaxRawRows rows, or the three rows of the end-to-end scenario), one
\* without a name column, one whose header supervisor_direto matches two
\* fields
Downloads ==
    {<<>>}
    \cup {<<Tabela(HeadersPortuguese, rows)>> :
              rows \in SeqsUpTo({RowAna, RowBia, RowCaio}, MaxRawRows)}
    \cup {<<Tabela(HeadersPortuguese, <<RowAna, RowBia, RowCaio>>)>>,
          <<Tabela(HeadersEnglish, <<RowAna>>)>>,
          <<Tabela(HeadersAmbiguous,
                   <<<<Ts(5, 3), Str(T_Ana), Str(T_Eletricista),
                       Str(T_Sup1)>>>>)>>}

SemSessao == [x \in {} |-> TabelaVazia]

Init ==
    /\ pc = "inicio"
    /\ pandas \in PandasVersions
    /\ session_state = SemSessao
    /\ checkbox = "absent"
    /\ cache = <<>>
    /\ marcado = FALSE
    /\ dot2 = <<>>
    /\ SemComparacao
    /\ colunas_df = <<>>
    /\ mapeamento = <<>>
    /\ df_raw = <<>>
    /\ df = TabelaVazia
    /\ df2 = TabelaVazia
    /\ valido = FALSE
    /\ erros = <<>>
    /\ dot = <<>>
    /\ cfg = ConfigPadrao

\* lines 402-431: a click on "Carregar Dados do SharePoint".  The download
\* is answered from the cache when it has an entry, else by SharePoint
ClicarCarregar ==
    \E raw \in (IF cache # <<>> THEN {cache[1]} ELSE Downloads) :
        \E b \in {BlocoCarregar(raw, checkbox, pandas)} :
            /\ cache' = <<raw>>
            /\ df_raw' = raw
            /\ mapeamento' = b.mapeamento
            /\ df' = b.df
            /\ valido' = b.valido
            /\ erros' = b.erros
            /\ checkbox' = b.checkbox
            /\ pc' = b.pc
            /\ session_state' =
                   IF b.guarda
                   THEN [df_equipes |-> b.df, fonte_dados |-> "SharePoint"]
                   ELSE session_state
            /\ UNCHANGED <<dot2, cmpVars>>
            /\ UNCHANGED <<colunas_df, df2, dot, marcado, cfg, pandas>>

\* a click on the box "Prosseguir mesmo com avisos": the script runs again
\* with the box ticked and the button not pressed, so lines 403-431 are
\* skipped, the box is not drawn and its state is dropped
MarcarCheckbox ==
    /\ checkbox = "unchecked"
    /\ checkbox' = "absent"
    /\ marcado' = TRUE
    /\ pc' = "marcou"
    /\ UNCHANGED <<dot2, cmpVars>>
    /\ UNCHANGED <<colunas_df, mapeamento, df_raw, df, df2, valido, erros,
                   dot, session_state, cache, cfg, pandas>>

\* lines 382-384: the sidebar button "Atualizar Cache"
AtualizarCache ==
    /\ cache' = <<>>
    /\ checkbox' = "absent"
    /\ pc' = "atualizou"
    /\ UNCHANGED <<dot2, cmpVars>>
    /\ UNCHANGED <<colunas_df, mapeamento, df_raw, df, df2, valido, erros,
                   dot, session_state, marcado, cfg, pandas>>

\* lines 522-524: the button "Recarregar", drawn under a chart
Recarregar ==
    /\ "df_equipes" \in DOMAIN session_state
    /\ ~empty(session_state.df_equipes)
    /\ cache' = <<>>
    /\ checkbox' = "absent"
    /\ pc' = "recarregou"
    /\ UNCHANGED <<dot2, cmpVars>>
    /\ UNCHANGED <<colunas_df, mapeamento, df_raw, df, df2, valido, erros,
                   dot, session_state, marcado, cfg, pandas>>

\* lines 153 and 244: the cache entry is older than ttl=300
ExpirarCache ==
    /\ cache # <<>>
    /\ cache' = <<>>
    /\ UNCHANGED <<dot2, cmpVars>>
    /\ UNCHANGED <<pc, colunas_df, mapeamento, df_raw, df, df2, valido,
                   erros, dot, session_state, checkbox, marcado, cfg, pandas>>

Next ==
    \/ ClicarCarregar
    \/ MarcarCheckbox
    \/ AtualizarCache
    \/ Recarregar
    \/ ExpirarCache

Spec == Init /\ [][Next]_vars

\* the raw table of the end-to-end scenario: the Portuguese headers and
\* three rows, exactly one of them with a null Cargo
CenarioC1(raw) ==
    /\ raw # <<>>
    /\ raw[1].cols = HeadersPortuguese
    /\ Len(raw[1].rows) = 3
    /\ Cardinality({i \in DOMAIN raw[1].rows : isnull(raw[1].rows[i][3])}) = 1

\* C1 (as claimed): when the load flow has run on such a table, the resolver
\* has mapped all five canonical fields and the validator has returned
\* is_valid = False with exactly one warning, the one reporting 1 empty
\* value in column 'funcao'.
C1_EndToEndOneWarning ==
    (pc \in {"carregado", "avisos"} /\ CenarioC1(df_raw)) =>
        /\ Completo(mapeamento)
        /\ valido = FALSE
        /\ erros = <<MsgNulos(1, K_funcao)>>

\* C4: the table stored under df_equipes is never one for which validar_dados
\* returns the empty-table verdict.
C4_NeverStoresEmptyTable ==
    "df_equipes" \in DOMAIN session_state =>
        validar_dados(session_state.df_equipes).erros # <<MsgVazia>>

\* a load of a table without rows has shown the 'planilha vazia' message and
\* the override box after the user had ticked that box before, and nothing
\* was stored
C4_Witness ==
    /\ pc = "avisos"
    /\ erros = <<MsgVazia>>
    /\ marcado
    /\ checkbox = "unchecked"
    /\ "df_equipes" \notin DOMAIN session_state

\* C14 (as claimed): after any sequence of load attempts, a table stored as
\* the current table (session key df_equipes) has all five canonical columns
\* data, nome, funcao, encarregado and supervisor, also when one header of
\* the raw table matches the synonyms of two canonical fields.
C14_StoredTableHasFiveColumns ==
    "df_equipes" \in DOMAIN session_state =>
        \A i \in DOMAIN obrigatorias :
            TemColuna(session_state.df_equipes, obrigatorias[i])

----------------------------------------------------------------------------
(* comparar_equipes and the page "Comparar Datas" *)

\* set(df["nome"])
NomesDe(t) == Range(Coluna(t, IndiceColuna(t, K_nome)))

SaidasSemSubtrair(t1, t2) == NomesDe(t1)

\* line 358: set(df1["nome"]) - set(df2["nome"])
Saidas(t1, t2) == NomesDe(t1) \ NomesDe(t2)

\* line 359: set(df2["nome"]) - set(df1["nome"])
Entradas(t1, t2) == NomesDe(t2) \ NomesDe(t1)

comparar_equipes(df_tot, d1, d2) ==
    LET df1 == Filtrar(df_tot, K_data, d1)
        df_2 == Filtrar(df_tot, K_data, d2)
    IN  [pessoas_saida |-> Saidas(df1, df_2),
         pessoas_entrada |-> Entradas(df1, df_2)]

\* line 685: df_total["data"].unique(), as a set
DatasDe(t) == Range(Coluna(t, IndiceColuna(t, K_data)))

\* line 685: sorted() raises TypeError when a str is compared with a NaN
Ordenavel(ds) == ~(\E a, b \in ds : a.k = "str" /\ b.k = "nan")

----------------------------------------------------------------------------
(* Specification SpecCompare: the page "Comparar Datas" on a stored table *)

MaxCmpRows == 4

T_Caio == <<"C","a","i","o">>

LinhaCmp(d, n) == <<d, Str(n), Str(T_Eletricista), Str(T_Enc1), Str(T_Sup1)>>

LinhasCmp ==
    {LinhaCmp(d, n) : d \in {Ts(5, 3), Ts(25, 3)}, n \in {T_Ana, T_Bia, T_Caio}}
    \cup {LinhaCmp(NaN, T_Ana)}

\* the tables the load flow can have stored: limpar_dados of a raw table
\* with the five canonical columns
TabelasGuardadas ==
    {limpar_dados(Tabela(obrigatorias, rows), "v1") :
         rows \in SeqsUpTo(LinhasCmp, MaxCmpRows)}

InitCompare ==
    /\ pc = "comparar"
    /\ session_state \in {[df_equipes |-> t] : t \in TabelasGuardadas}
    /\ colunas_df = <<>>
    /\ mapeamento = <<>>
    /\ df_raw = <<>>
    /\ df = TabelaVazia
    /\ df2 = TabelaVazia
    /\ valido = TRUE
    /\ erros = <<>>
    /\ dot = <<>>
    /\ dot2 = <<>>
    /\ checkbox = "absent"
    /\ cache = <<>>
    /\ marcado = FALSE
    /\ cfg = ConfigPadrao
    /\ pandas = "v1"
    /\ SemComparacao

\* lines 681-700: one run of the page with the two select boxes set
Comparar ==
    /\ pc \in {"comparar", "comparado"}
    /\ "df_equipes" \in DOMAIN session_state
    /\ LET df_total == session_state.df_equipes
           datas == DatasDe(df_total)
       IN  /\ Ordenavel(datas)
           /\ Cardinality(datas) >= 2
           /\ \E d1 \in datas : \E d2 \in datas :
                  /\ d1 # d2
                  /\ \E r \in {comparar_equipes(df_total, d1, d2)} :
                         /\ data1' = d1
                         /\ data2' = d2
                         /\ pessoas_saida' = r.pessoas_saida
                         /\ pessoas_entrada' = r.pessoas_entrada
    /\ pc' = "comparado"
    /\ UNCHANGED <<colunas_df, mapeamento, df_raw, df, df2, valido, erros,
                   dot, dot2, session_state, checkbox, cache, marcado, cfg,
                   pandas>>

NextCompare == Comparar

SpecCompare == InitCompare /\ [][NextCompare]_vars

\* the names on the rows of the stored table whose date is d
NomesNaData(d) ==
    LET t == session_state.df_equipes
    IN  {t.rows[i][IndiceColuna(t, K_nome)] :
             i \in {h \in DOMAIN t.rows : t.rows[h][IndiceColuna(t, K_data)] = d}}

\* C11: after comparar_equipes was called with two distinct dates, the
\* departed set is exactly the names present in the slice of the first date
\* and absent from the slice of the second, the arrived set is exactly the
\* names present in the slice of the second and absent from the slice of the
\* first, and the two sets are disjoint.
C11_DepartedAndArrived ==
    pc = "comparado" =>
        /\ data1 # data2
        /\ \A n \in NomesNaData(data1) \cup NomesNaData(data2) :
               /\ n \in pessoas_saida <=>
                      (n \in NomesNaData(data1) /\ n \notin NomesNaData(data2))
               /\ n \in pessoas_entrada <=>
                      (n \in NomesNaData(data2) /\ n \notin NomesNaData(data1))
        /\ pessoas_saida \subseteq NomesNaData(data1)
        /\ pessoas_entrada \subseteq NomesNaData(data2)
        /\ pessoas_saida \cap pessoas_entrada = {}

\* the example of the claim: the first date has Ana and Bia, the second Bia
\* and Caio, and the comparison returned {Ana} and {Caio}
C11_Witness ==
    /\ pc = "comparado"
    /\ NomesNaData(data1) = {Str(T_Ana), Str(T_Bia)}
    /\ NomesNaData(data2) = {Str(T_Bia), Str(T_Caio)}
    /\ pessoas_saida = {Str(T_Ana)}
    /\ pessoas_entrada = {Str(T_Caio)}

====
